---- MODULE Spec2Model ----
(***************************************************************************)
(* A model of lda.py: the LDA class (collapsed Gibbs sampling with the     *)
(* word2vec-guided coherence adjustment).  Real numbers are exact          *)
(* rationals <<numerator, denominator>>; arrays are functions indexed from *)
(* 0 as in the source.                                                     *)
(***************************************************************************)
EXTENDS Integers, Sequences, FiniteSets, TLC

(***************************************************************************)
(* Exact rational arithmetic (the source computes in float64).             *)
(***************************************************************************)
Abs(a) == IF a < 0 THEN -a ELSE a

RECURSIVE GCD(_, _)
GCD(a, b) == IF b = 0 THEN a ELSE GCD(b, a % b)

\* n/d in lowest terms with a positive denominator (d # 0)
Rat(n, d) ==
    LET g == GCD(Abs(n), Abs(d))
        s == IF d < 0 THEN -1 ELSE 1
    IN  <<s * (n \div g), s * (d \div g)>>

RInt(n) == <<n, 1>>
RZero == <<0, 1>>
ROne == <<1, 1>>

RAdd(a, b) ==
    LET g == GCD(a[2], b[2])
    IN  Rat(a[1] * (b[2] \div g) + b[1] * (a[2] \div g), (a[2] \div g) * b[2])

RNeg(a) == <<-a[1], a[2]>>
RSub(a, b) == RAdd(a, RNeg(b))

RMul(a, b) ==
    LET g1 == GCD(Abs(a[1]), b[2])
        g2 == GCD(Abs(b[1]), a[2])
    IN  IF a[1] = 0 \/ b[1] = 0 THEN RZero
        ELSE <<(a[1] \div g1) * (b[1] \div g2), (a[2] \div g2) * (b[2] \div g1)>>

\* a / b for b # 0
RDiv(a, b) == RMul(a, IF b[1] < 0 THEN <<-b[2], -b[1]>> ELSE <<b[2], b[1]>>)

RLess(a, b) ==
    LET g == GCD(a[2], b[2])
    IN  a[1] * (b[2] \div g) < b[1] * (a[2] \div g)

RLeq(a, b) == ~RLess(b, a)
RPos(a) == a[1] > 0

\* the sums f[lo] + ... + f[hi-1] and f[0] + ... + f[n-1] of an array
\* indexed from 0 (split in halves to keep the evaluation shallow)
RECURSIVE RSumRange(_, _, _)
RSumRange(f, lo, hi) ==
    IF hi <= lo THEN RZero
    ELSE IF hi = lo + 1 THEN f[lo]
    ELSE RAdd(RSumRange(f, lo, (lo + hi) \div 2), RSumRange(f, (lo + hi) \div 2, hi))
RSum(f, n) == RSumRange(f, 0, n)

RECURSIVE ISumRange(_, _, _)
ISumRange(f, lo, hi) ==
    IF hi <= lo THEN 0
    ELSE IF hi = lo + 1 THEN f[lo]
    ELSE ISumRange(f, lo, (lo + hi) \div 2) + ISumRange(f, (lo + hi) \div 2, hi)
ISum(f, n) == ISumRange(f, 0, n)

Size(f) == Cardinality(DOMAIN f)
\* an array and a matrix with every cell computed (TLC values only)
Arr(f) == f @@ <<>>
Mat(f) == Arr([i \in DOMAIN f |-> Arr(f[i])])

(***************************************************************************)
(* Bounds of the model and the inputs it draws.                            *)
(***************************************************************************)
MaxIter == 3
MaxTopics == 2
MaxRefresh == 2

\* the number of top words per topic and of low-relevance words reweighted
TopN == 12
NLow == 5
\* the embedding dimensionality the centroid hardcodes
EmbDim == 100

\* document-term matrices: X[d][w], documents and words numbered from 0
XFull == [d \in 0..1 |-> [w \in 0..11 |-> IF d = 1 /\ w = 0 THEN 0 ELSE 1]]
XSparse == [d \in 0..1 |-> [w \in 0..11 |->
               IF d = 0 /\ w = 0 THEN 2 ELSE IF d = 0 /\ w = 1 THEN 1 ELSE 0]]
XTiny == [d \in 0..0 |-> [w \in 0..1 |-> 1]]
XChoices == {XFull, XSparse, XTiny}

NDocs(M) == Size(M)
NWords(M) == Size(M[0])
DocLen(M, d) == ISum(M[d], NWords(M))
XSum(M) == ISum([d \in DOMAIN M |-> DocLen(M, d)], NDocs(M))

\* embedding lookups wv[id2word[w]] for word ids 0..11, as integer vectors
\* of EmbDim components; Axis(a, m) is m times the a-th unit vector
Axis(a, m) == [c \in 0..(EmbDim - 1) |-> IF c = a THEN m ELSE 0]
EmbSame == [w \in 0..11 |-> Axis(0, 1)]
EmbMixed == [w \in 0..11 |->
    IF w = 0 THEN Axis(0, 4)
    ELSE IF w <= 6 THEN Axis(0, 1)
    ELSE IF w = 7 THEN Axis(1, -3)
    ELSE IF w = 8 THEN Axis(1, 1)
    ELSE IF w = 9 THEN Axis(2, -3)
    ELSE IF w = 10 THEN Axis(2, 2)
    ELSE Axis(3, 4)]
WvChoices == {"same", "mixed"}
Embedding(name, w) == IF name = "same" THEN EmbSame[w] ELSE EmbMixed[w]

\* the reused buffer of uniform variates, rands[0..n_rand-1]
Nine10 == <<9, 10>>
RandsChoices == { [j \in 0..1 |-> RZero],
                  [j \in 0..1 |-> IF j = 0 THEN RZero ELSE Nine10] }

AlphaChoices == {RZero, ROne}
EtaChoices == {ROne}
LamdaChoices == {RZero, <<1, 2>>, ROne}
\* values an uninitialized np.empty cell may hold
Garbage == {0, 7}

(***************************************************************************)
(* State: the LDA object's attributes, the running fit's position, and a   *)
(* history of the fit's events.                                            *)
(***************************************************************************)
VARIABLES
    pc,              \* position: new, constructed, shuffle, ll, sample, adjust, done, failed
    err,             \* the exception that ended construction or the fit
    n_topics, n_iter, alpha, eta, lamda, refresh, wv,
    rands,           \* the fit's copy of self._rands
    X,               \* the matrix the fit was called with
    it,              \* the loop variable of _fit
    attrs,           \* names of the count/stream/output attributes the object holds
    nzw_, ndz_, nz_, WS, DS, ZS,
    components_, topic_word_new,
    aliased,         \* topic_word_new and components_ name one array
    loglikelihoods_, \* one entry per snapshot: the iteration it was taken at
    topic_word_, doc_topic_,
    transformed,     \* the argument and the result of a transform call, once made
    events           \* history: <<kind, iteration>> of each step of the fit

config == <<n_topics, n_iter, alpha, eta, lamda, refresh, wv>>
counts == <<nzw_, ndz_, nz_, WS, DS, ZS>>
dists == <<components_, topic_word_new, aliased>>
outputs == <<topic_word_, doc_topic_>>
vars == <<pc, err, config, transformed, rands, X, it, attrs, counts, dists,
          loglikelihoods_, outputs, events>>

Topics == 0..(n_topics - 1)
Empty == <<>>

Init ==
    /\ pc = "new"
    /\ err = "none"
    /\ n_topics \in (0 - 1)..MaxTopics
    /\ n_iter \in 0..MaxIter
    /\ alpha \in AlphaChoices
    /\ eta \in EtaChoices
    /\ lamda \in LamdaChoices
    /\ refresh \in 0..MaxRefresh
    /\ wv \in WvChoices
    /\ rands \in RandsChoices
    /\ X = Empty
    /\ it = 0
    /\ attrs = {}
    /\ nzw_ = Empty /\ ndz_ = Empty /\ nz_ = Empty
    /\ WS = Empty /\ DS = Empty /\ ZS = Empty
    /\ components_ = Empty /\ topic_word_new = Empty /\ aliased = FALSE
    /\ loglikelihoods_ = Empty
    /\ topic_word_ = Empty /\ doc_topic_ = Empty
    /\ transformed = Empty
    /\ events = Empty

\* __init__: the only validation is of alpha and eta
Construct ==
    /\ pc = "new"
    /\ IF RLeq(alpha, RZero) \/ RLeq(eta, RZero)
       THEN pc' = "failed" /\ err' = "ValueError"
       ELSE pc' = "constructed" /\ err' = err
    /\ UNCHANGED <<config, transformed, rands, X, it, attrs, counts, dists,
                   loglikelihoods_, outputs, events>>

(***************************************************************************)
(* lda.utils.matrix_to_lists: one (word, document) pair per unit count,    *)
(* row-major over documents then words.                                    *)
(***************************************************************************)
RECURSIVE Repeat(_, _)
Repeat(x, n) == IF n <= 0 THEN <<>> ELSE <<x>> \o Repeat(x, n - 1)

RECURSIVE RowTokens(_, _, _)
RowTokens(M, d, w) ==
    IF w >= NWords(M) THEN <<>>
    ELSE Repeat(<<w, d>>, M[d][w]) \o RowTokens(M, d, w + 1)

RECURSIVE MatTokens(_, _)
MatTokens(M, d) ==
    IF d >= NDocs(M) THEN <<>> ELSE RowTokens(M, d, 0) \o MatTokens(M, d + 1)

matrix_to_lists(M) ==
    LET s == MatTokens(M, 0)
    IN  [WS |-> Arr([i \in 0..(Len(s) - 1) |-> s[i + 1][1]]),
         DS |-> Arr([i \in 0..(Len(s) - 1) |-> s[i + 1][2]])]

\* (nzw + eta).astype(float) divided by its row sums
SmoothedRows(nzw, e) ==
    Mat([z \in DOMAIN nzw |->
        LET row == Arr([w \in DOMAIN nzw[z] |-> RAdd(RInt(nzw[z][w]), e)])
            tot == RSum(row, Size(row))
        IN  [w \in DOMAIN row |-> RDiv(row[w], tot)]])

\* InitToken with the increment of nz_ left out
InitTokenNoNz(i, T, st) ==
    LET w == st.WS[i]
        d == st.DS[i]
        z_new == i % T
    IN  [st EXCEPT !.ZS[i] = z_new,
                   !.ndz[d][z_new] = @ + 1,
                   !.nzw[z_new][w] = @ + 1]

\* InitToken counting every token under document 0
InitTokenFirstDoc(i, T, st) ==
    LET w == st.WS[i]
        z_new == i % T
    IN  [st EXCEPT !.ZS[i] = z_new,
                   !.ndz[0][z_new] = @ + 1,
                   !.nzw[z_new][w] = @ + 1,
                   !.nz[z_new] = @ + 1]

\* the body of the assignment loop of _initialize for token i
InitToken(i, T, st) ==
    LET w == st.WS[i]
        d == st.DS[i]
        z_new == i % T
    IN  [st EXCEPT !.ZS[i] = z_new,
                   !.ndz[d][z_new] = @ + 1,
                   !.nzw[z_new][w] = @ + 1,
                   !.nz[z_new] = @ + 1]

\* for i in range(lo, hi), in index order (split in halves to keep the
\* evaluation shallow)
RECURSIVE InitLoop(_, _, _, _)
InitLoop(lo, hi, T, st) ==
    IF hi <= lo \/ Size(st.ZS) = 0 THEN st
    ELSE IF hi = lo + 1 THEN InitToken(lo, T, st)
    ELSE InitLoop((lo + hi) \div 2, hi, T, InitLoop(lo, (lo + hi) \div 2, T, st))

CountAttrs == {"nzw_", "ndz_", "nz_", "WS", "DS", "ZS", "components_", "topic_word_new"}

\* _fit up to the loop: _initialize(X)
Initialize ==
    /\ pc = "constructed"
    /\ \E M \in XChoices :
       \* g: what np.empty_like left in ZS; the loop overwrites every cell
       \* unless it stops at its first token
       \E g \in (IF n_topics = 0 /\ XSum(M) > 0 THEN Garbage ELSE {0}) :
        LET D == NDocs(M)
            W == NWords(M)
            N == XSum(M)
            lists == matrix_to_lists(M)
            zero == [nzw |-> Mat([z \in Topics |-> [w \in 0..(W - 1) |-> 0]]),
                     ndz |-> Mat([d \in 0..(D - 1) |-> [z \in Topics |-> 0]]),
                     nz |-> Arr([z \in Topics |-> 0]),
                     WS |-> lists.WS, DS |-> lists.DS,
                     ZS |-> Arr([i \in 0..(N - 1) |-> g])]
        IN  /\ X' = M
            /\ IF n_topics < 0
               THEN \* np.zeros refuses a negative dimension
                    /\ pc' = "failed" /\ err' = "ValueError"
                    /\ UNCHANGED <<attrs, counts, dists, loglikelihoods_>>
               ELSE /\ components_' = SmoothedRows(zero.nzw, eta)
                    /\ topic_word_new' = components_'
                    /\ aliased' = TRUE
                    /\ WS' = zero.WS /\ DS' = zero.DS
                    /\ IF n_topics = 0 /\ N > 0
                       THEN \* i % n_topics divides by zero at the first token
                            /\ pc' = "failed" /\ err' = "ZeroDivisionError"
                            /\ attrs' = attrs \cup CountAttrs
                            /\ nzw_' = zero.nzw /\ ndz_' = zero.ndz /\ nz_' = zero.nz
                            /\ ZS' = zero.ZS
                            /\ UNCHANGED loglikelihoods_
                       ELSE LET st == InitLoop(0, N, n_topics, zero)
                            IN  /\ pc' = "shuffle" /\ err' = err
                                /\ attrs' = attrs \cup CountAttrs \cup {"loglikelihoods_"}
                                /\ nzw_' = st.nzw /\ ndz_' = st.ndz /\ nz_' = st.nz
                                /\ ZS' = st.ZS
                                /\ loglikelihoods_' = <<>>
    /\ it' = 0
    /\ events' = Append(events, <<"initialize", 0>>)
    /\ UNCHANGED <<config, transformed, rands, outputs>>

(***************************************************************************)
(* lda._lda._sample_topics: one sweep over the tokens in index order.      *)
(***************************************************************************)
\* the unnormalized conditional weight of topic k for word w of document d
Weight(k, w, d, st, alphas, etas, lam, twa) ==
    LET prior == RAdd(RInt(st.ndz[d][k]), alphas[k])
        base == RDiv(RMul(prior, RAdd(RInt(st.nzw[k][w]), etas.of[w])),
                     RAdd(RInt(st.nz[k]), etas.sum))
        adjusted == RMul(prior, twa[k][w])
    IN  RAdd(RMul(lam, base), RMul(RSub(ROne, lam), adjusted))

\* cumulative sums dist_sum[k] of the weights wt[0..k]
RECURSIVE CumSum(_, _)
CumSum(wt, k) == IF k < 0 THEN RZero ELSE RAdd(wt[k], CumSum(wt, k - 1))

\* Draw with the search's result one place too far
DrawOffByOne(wt, T, variate, fb) ==
    LET cum == Arr([k \in 0..(T - 1) |-> CumSum(wt, k)])
        u == RMul(variate, CumSum(wt, T - 1))
        hits == {k \in 0..(T - 1) : RLess(u, cum[k])}
        k0 == CHOOSE k \in hits : \A j \in hits : k <= j
    IN  IF hits = {} THEN fb
        ELSE IF k0 + 1 < T THEN k0 + 1 ELSE k0

\* the smallest k whose cumulative weight exceeds u; when there is none the
\* draw is left open by the rule and fb, any topic, stands for its outcome
Draw(wt, T, variate, fb) ==
    LET cum == Arr([k \in 0..(T - 1) |-> CumSum(wt, k)])
        u == RMul(variate, CumSum(wt, T - 1))
        hits == {k \in 0..(T - 1) : RLess(u, cum[k])}
    IN  IF hits = {} THEN fb
        ELSE CHOOSE k \in hits : \A j \in hits : k <= j

\* the resampling of token i: remove it, draw its topic, reinsert it; open
\* records that some draw of the sweep was left open
SampleToken(i, ws, ds, st, alphas, etas, rnd, lam, twa, fb) ==
    LET w == ws[i]
        d == ds[i]
        z == st.ZS[i]
        T == Size(st.nz)
        n_rand == Size(rnd)
        dec == [st EXCEPT !.nzw[z][w] = @ - 1,
                          !.ndz[d][z] = @ - 1,
                          !.nz[z] = @ - 1]
        wt == Arr([k \in 0..(T - 1) |->
                   Weight(k, w, d, dec, alphas, etas, lam, twa)])
        drawn == Draw(wt, T, rnd[i % n_rand], 0 - 1)
        z_new == IF drawn < 0 THEN fb ELSE drawn
    IN  [dec EXCEPT !.ZS[i] = z_new,
                    !.open = @ \/ drawn < 0,
                    !.nzw[z_new][w] = @ + 1,
                    !.ndz[d][z_new] = @ + 1,
                    !.nz[z_new] = @ + 1]

\* for i in range(lo, hi), in index order (split in halves to keep the
\* evaluation shallow)
RECURSIVE SampleLoop(_, _, _, _, _, _, _, _, _, _, _)
SampleLoop(lo, hi, ws, ds, st, alphas, etas, rnd, lam, twa, fb) ==
    IF hi <= lo \/ Size(st.ZS) = 0 THEN st
    ELSE IF hi = lo + 1
         THEN SampleToken(lo, ws, ds, st, alphas, etas, rnd, lam, twa, fb)
    ELSE SampleLoop((lo + hi) \div 2, hi, ws, ds,
             SampleLoop(lo, (lo + hi) \div 2, ws, ds, st,
                        alphas, etas, rnd, lam, twa, fb),
             alphas, etas, rnd, lam, twa, fb)

\* LDA._sample_topics(rands): the arguments it hands to the sweep
sample_topics(st, rnd, fb) ==
    LET T == Size(nzw_)
        vocab_size == NWords(X)
        alphas == Arr([k \in 0..(T - 1) |-> alpha])
        eta_w == Arr([w \in 0..(vocab_size - 1) |-> eta])
        \* the array and its sum, which the sweep takes once
        etas == [of |-> eta_w, sum |-> RSum(eta_w, vocab_size)] @@ <<>>
    IN  SampleLoop(0, Size(WS), WS, DS, st, alphas, etas, rnd, lamda,
                   topic_word_new, fb)

(***************************************************************************)
(* The loop of _fit, one action per statement group.                       *)
(***************************************************************************)
Shuffles(f) ==
    { g \in [DOMAIN f -> {f[j] : j \in DOMAIN f}] :
        \E p \in [DOMAIN f -> DOMAIN f] :
            /\ \A a, b \in DOMAIN f : a # b => p[a] # p[b]
            /\ g = [j \in DOMAIN f |-> f[p[j]]] }

\* random_state.shuffle(rands)
Shuffle ==
    /\ pc = "shuffle"
    /\ it < n_iter
    /\ \E r \in Shuffles(rands) : rands' = r
    /\ pc' = "ll"
    /\ events' = Append(events, <<"shuffle", it>>)
    /\ UNCHANGED <<err, config, transformed, X, it, attrs, counts, dists, loglikelihoods_, outputs>>

\* Snapshot taking a log-likelihood value in every iteration
SnapshotEvery ==
    /\ pc = "ll"
    /\ IF refresh = 0
       THEN /\ pc' = "failed" /\ err' = "ZeroDivisionError"
            /\ UNCHANGED <<loglikelihoods_, events>>
       ELSE /\ pc' = "sample" /\ err' = err
            /\ loglikelihoods_' = Append(loglikelihoods_, it)
            /\ events' = Append(events, <<"loglikelihood", it>>)
    /\ UNCHANGED <<config, transformed, rands, X, it, attrs, counts, dists, outputs>>

\* if it % refresh == 0: loglikelihoods_.append(loglikelihood())
Snapshot ==
    /\ pc = "ll"
    /\ IF refresh = 0
       THEN /\ pc' = "failed" /\ err' = "ZeroDivisionError"
            /\ UNCHANGED <<loglikelihoods_, events>>
       ELSE /\ pc' = "sample" /\ err' = err
            /\ IF it % refresh = 0
               THEN /\ loglikelihoods_' = Append(loglikelihoods_, it)
                    /\ events' = Append(events, <<"loglikelihood", it>>)
               ELSE UNCHANGED <<loglikelihoods_, events>>
    /\ UNCHANGED <<config, transformed, rands, X, it, attrs, counts, dists, outputs>>

\* self._sample_topics(rands)
SamplePass ==
    /\ pc = "sample"
    /\ LET now == [ZS |-> ZS, nzw |-> nzw_, ndz |-> ndz_, nz |-> nz_, open |-> FALSE]
           first == sample_topics(now, rands, 0)
       IN  \E fb \in (IF first.open THEN Topics ELSE {0}) :
            LET st == IF fb = 0 THEN first ELSE sample_topics(now, rands, fb)
            IN  /\ ZS' = st.ZS /\ nzw_' = st.nzw /\ ndz_' = st.ndz /\ nz_' = st.nz
    /\ pc' = "adjust"
    /\ events' = Append(events, <<"sample", it>>)
    /\ UNCHANGED <<err, config, transformed, rands, X, it, attrs, WS, DS, dists,
                   loglikelihoods_, outputs>>

(***************************************************************************)
(* The coherence adjustment of _fit (run when it % 2 == 0).                *)
(***************************************************************************)
\* row.argsort()[::-1][0:TopN]: word ids by descending probability; equal
\* probabilities keep argsort's ascending index order, reversed
TopWords(row) ==
    LET W == Size(row)
        before(v, w) == RLess(row[w], row[v]) \/ (row[v] = row[w] /\ v > w)
        rank == Arr([w \in 0..(W - 1) |-> Cardinality({v \in 0..(W - 1) : before(v, w)})])
    IN  Arr([pos \in 0..(IF W < TopN THEN W ELSE TopN) - 1 |->
                CHOOSE w \in 0..(W - 1) : rank[w] = pos])

\* topic_most[i] = ...: a row of one word is broadcast over the TopN places
TopicMostRow(row) ==
    IF Size(row) = 1 THEN Arr([pos \in 0..(TopN - 1) |-> 0]) ELSE TopWords(row)

\* word_id[z].index(w): the first place of w among the top words, if any
IndexOf(ids, w) ==
    IF \E pos \in DOMAIN ids : ids[pos] = w
    THEN CHOOSE pos \in DOMAIN ids : ids[pos] = w /\ \A q \in DOMAIN ids : ids[q] = w => pos <= q
    ELSE 0 - 1

\* the documents d with count[pos + TopN*i, d, i] != 0
DocsWith(ids, i, pos) ==
    { DS[t] : t \in { u \in DOMAIN WS : ZS[u] = i /\ IndexOf(ids, WS[u]) = pos } }

\* log of an integer 1..4 as exponents of 2 and 3: log n = e2 log 2 + e3 log 3
LogInt(n) == IF n = 1 THEN <<0, 0>> ELSE IF n = 2 THEN <<1, 0>>
             ELSE IF n = 3 THEN <<0, 1>> ELSE <<2, 0>>
LAdd(a, b) == <<a[1] + b[1], a[2] + b[2]>>
LSub(a, b) == <<a[1] - b[1], a[2] - b[2]>>
LScale(n, a) == <<n * a[1], n * a[2]>>
\* a < b for such logs: 1.584962 < log2(3) < 1.584963 decides the sign of
\* e2 + e3 log2(3) for every |e3| below a thousand
LLess(a, b) ==
    LET e2 == a[1] - b[1]
        e3 == a[2] - b[2]
    IN  IF e3 = 0 THEN e2 < 0
        ELSE IF e3 > 0 THEN e2 * 1000000 + e3 * 1584963 <= 0
        ELSE e2 * 1000000 + e3 * 1584962 < 0

RECURSIVE LSumRange(_, _, _)
LSumRange(f, lo, hi) ==
    IF hi <= lo THEN <<0, 0>>
    ELSE IF hi = lo + 1 THEN f[lo]
    ELSE LAdd(LSumRange(f, lo, (lo + hi) \div 2), LSumRange(f, (lo + hi) \div 2, hi))

\* ZeroMarginal with the last top word taken for a divisor as well
ZeroMarginalAll(ids, i) ==
    \E l \in 0..(TopN - 1) : DocsWith(ids, i, l) = {}

\* some pair of topic i divides by a self_frequency of zero
ZeroMarginal(ids, i) ==
    \E l \in 0..(TopN - 2) : DocsWith(ids, i, l) = {}

\* ck[i]: the sum over the pairs of log((con_frequency + 1) / self_frequency)
Coherence(ids, i) ==
    LET docs == Arr([pos \in 0..(TopN - 1) |-> DocsWith(ids, i, pos)])
        term == Arr([l \in 0..(TopN - 2) |->
                    LET ms == Arr([m \in 0..(TopN - 1) |->
                                IF m <= l THEN <<0, 0>>
                                ELSE LSub(LogInt(Cardinality(docs[m] \cap docs[l]) + 1),
                                          LogInt(Cardinality(docs[l])))])
                    IN  LSumRange(ms, 0, TopN)])
    IN  LSumRange(term, 0, TopN - 1)

\* the topic the loop over ck[i] - (ck_sum - ck[i]) / (n_topics - 1) keeps:
\* the first topic of least score (scores are compared times n_topics - 1)
SelectAdjust(ck) ==
    LET T == Size(ck)
        ck_sum == LSumRange(ck, 0, T)
        score == Arr([i \in 0..(T - 1) |-> LSub(LScale(T, ck[i]), ck_sum)])
    IN  IF T = 1 THEN 0
        ELSE CHOOSE i \in 0..(T - 1) :
                /\ \A j \in 0..(i - 1) : LLess(score[i], score[j])
                /\ \A j \in (i + 1)..(T - 1) : ~LLess(score[j], score[i])

\* integer vectors of EmbDim components
Dot(u, v) == ISum([c \in 0..(EmbDim - 1) |-> u[c] * v[c]], EmbDim)
ISqrt(n) == CHOOSE r \in 0..n : r * r = n
VecSum(vs, n) == Arr([c \in 0..(EmbDim - 1) |-> ISum([j \in 0..(n - 1) |-> vs[j][c]], n)])

\* scipy's cosine(u, total / k): 1 - u.v / (|u| |v|), for norms that are rational
Cosine(u, total, k) ==
    RSub(ROne, RDiv(Rat(Dot(u, total), k),
                    RMul(RInt(ISqrt(Dot(u, u))), Rat(ISqrt(Dot(total, total)), k))))

\* min_rele: 1 - cosine(wv[id2word[topic_most[adjust, i]]], total_embedding)
Relevance(name, ids) ==
    LET vs == Arr([i \in 0..(TopN - 1) |-> Embedding(name, ids[i])])
        total == VecSum(vs, TopN)
    IN  Arr([i \in 0..(TopN - 1) |-> RSub(ROne, Cosine(vs[i], total, TopN))])

\* heapq.nsmallest(n, vals): the n least values in ascending order
RECURSIVE NSmallest(_, _, _)
NSmallest(n, vals, left) ==
    IF n = 0 \/ left = {} THEN <<>>
    ELSE LET i == CHOOSE j \in left : \A q \in left :
                      RLess(vals[j], vals[q]) \/ (vals[j] = vals[q] /\ j <= q)
         IN  <<vals[i]>> \o NSmallest(n - 1, vals, left \ {i})

\* list(map(min_rele.index, heapq.nsmallest(NLow, min_rele)))
MinIndex(min_rele) ==
    LET small == NSmallest(NLow, min_rele, DOMAIN min_rele)
    IN  [j \in 1..Len(small) |-> IndexOf(min_rele, small[j])]

\* the loop over min_index from its j-th entry: scale or zero the word and
\* add to p_allocate
RECURSIVE Shrink(_, _, _, _, _)
Shrink(j, min_index, min_rele, ids, acc) ==
    IF j > Len(min_index) THEN acc
    ELSE LET i == min_index[j]
             adjust_id == ids[i]
             scaled == IF RPos(min_rele[i])
                       THEN RMul(acc.row[adjust_id], min_rele[i])
                       ELSE RMul(acc.row[adjust_id], RZero)
             added == IF RPos(min_rele[i])
                      THEN RMul(scaled, RSub(ROne, min_rele[i]))
                      ELSE scaled
         IN  Shrink(j + 1, min_index, min_rele, ids,
                    [row |-> [acc.row EXCEPT ![adjust_id] = scaled],
                     p_allocate |-> RAdd(acc.p_allocate, added)])

\* the two loops over the places not in min_index: p_allocate_sum, then the
\* rescaling of each such word in place order
RECURSIVE Spread(_, _, _, _, _, _)
Spread(i, keep, ids, row, p_allocate, p_allocate_sum) ==
    IF i >= TopN THEN row
    ELSE IF i \notin keep THEN Spread(i + 1, keep, ids, row, p_allocate, p_allocate_sum)
    ELSE LET p_id == ids[i]
             factor == RAdd(ROne, RDiv(RMul(p_allocate, row[p_id]), p_allocate_sum))
         IN  Spread(i + 1, keep, ids, [row EXCEPT ![p_id] = RMul(@, factor)],
                    p_allocate, p_allocate_sum)

\* the reweighting of one row of topic_word_new given the relevances
Reweight(row, ids, min_rele) ==
    LET min_index == MinIndex(min_rele)
        shrunk == Shrink(1, min_index, min_rele, ids, [row |-> row, p_allocate |-> RZero])
        keep == { i \in 0..(TopN - 1) : \A j \in DOMAIN min_index : min_index[j] # i }
        p_allocate_sum == RSum([i \in 0..(TopN - 1) |->
                                   IF i \in keep THEN shrunk.row[ids[i]] ELSE RZero], TopN)
    IN  Spread(0, keep, ids, shrunk.row, shrunk.p_allocate, p_allocate_sum)

\* what the adjustment ends in for the recomputed topic-word matrix tw:
\* an exception, or the matrix with row adjust reweighted
AdjustOutcome(tw) ==
    LET T == Size(tw)
        W == NWords(X)
        topic_most == Arr([i \in 0..(T - 1) |-> TopicMostRow(tw[i])])
    IN  IF T > 0 /\ W # 1 /\ W < TopN THEN [err |-> "ValueError"]
        ELSE IF \E i \in 0..(T - 1) : ZeroMarginal(topic_most[i], i)
             THEN [err |-> "ZeroDivisionError"]
        ELSE IF T = 0 THEN [err |-> "IndexError"]
        ELSE LET ck == Arr([i \in 0..(T - 1) |-> Coherence(topic_most[i], i)])
                 adjust == SelectAdjust(ck)
                 min_rele == Relevance(wv, topic_most[adjust])
             IN  [err |-> "none", adjust |-> adjust,
                  tw |-> [tw EXCEPT ![adjust] = Reweight(@, topic_most[adjust], min_rele)]]

\* if it % 2 == 0: the adjustment; then the next iteration
Adjust ==
    /\ pc = "adjust"
    /\ IF it % 2 = 0
       THEN LET out == AdjustOutcome(SmoothedRows(nzw_, eta))
            IN  /\ aliased' = TRUE
                /\ IF out.err # "none"
                   THEN /\ pc' = "failed" /\ err' = out.err
                        /\ components_' = SmoothedRows(nzw_, eta)
                        /\ topic_word_new' = components_'
                        /\ UNCHANGED <<it, events>>
                   ELSE /\ pc' = "shuffle" /\ err' = err
                        /\ topic_word_new' = out.tw
                        /\ components_' = topic_word_new'
                        /\ it' = it + 1
                        /\ events' = Append(events, <<"adjust", it>>)
       ELSE /\ pc' = "shuffle"
            /\ it' = it + 1
            /\ UNCHANGED <<err, dists, events>>
    /\ UNCHANGED <<config, transformed, rands, X, attrs, counts, loglikelihoods_, outputs>>

(***************************************************************************)
(* The end of _fit: the estimates, the blend, perplexity, the deletions.   *)
(***************************************************************************)
\* lamda * topic_word_ + (1 - lamda) * topic_word_new
Blend(lam, tw, twn) ==
    Mat([z \in DOMAIN tw |-> [w \in DOMAIN tw[z] |->
            RAdd(RMul(lam, tw[z][w]), RMul(RSub(ROne, lam), twn[z][w]))]])

\* whether perplexity's p(w) for a cell (d, i) of X, the sum over k of
\* doc_topic_[d, k] * topic_word_[k, i], is zero: its terms are never negative
ProbWordZero(dt, tw, d, i) ==
    \A k \in DOMAIN tw : RMul(dt[d][k], tw[k][i]) = RZero

\* the exception perplexity(X) raises, if any: math.log of a zero p(w), or
\* the division by N = 0
PerplexityError(M, dt, tw) ==
    IF \E d \in DOMAIN M : \E i \in DOMAIN M[d] :
           M[d][i] # 0 /\ ProbWordZero(dt, tw, d, i)
    THEN "ValueError"
    ELSE IF XSum(M) = 0 THEN "ZeroDivisionError"
    ELSE "none"

Finish ==
    /\ pc = "shuffle"
    /\ it >= n_iter
    /\ components_' = SmoothedRows(nzw_, eta)
    /\ aliased' = FALSE
    /\ doc_topic_' = SmoothedRows(ndz_, alpha)
    /\ topic_word_' = Blend(lamda, components_', topic_word_new)
    /\ attrs' = (IF PerplexityError(X, doc_topic_', topic_word_') = "none"
                 THEN attrs \ {"WS", "DS", "ZS"} ELSE attrs)
                \cup {"topic_word_", "doc_topic_"}
    /\ IF PerplexityError(X, doc_topic_', topic_word_') = "none"
       THEN /\ pc' = "done" /\ err' = err
            /\ WS' = Empty /\ DS' = Empty /\ ZS' = Empty
            /\ events' = events \o <<<<"blend", it>>, <<"discard", it>>>>
       ELSE /\ pc' = "failed"
            /\ err' = PerplexityError(X, doc_topic_', topic_word_')
            /\ events' = Append(events, <<"blend", it>>)
            /\ UNCHANGED <<WS, DS, ZS>>
    /\ UNCHANGED <<config, transformed, rands, X, it, nzw_, ndz_, nz_, topic_word_new,
                   loglikelihoods_>>

(***************************************************************************)
(* transform(X, max_iter, tol) on the fitted model.                        *)
(***************************************************************************)
\* matrices of the vocabulary's width: a document followed by an all-zero
\* row, and a single document of one repeated word
TransformChoices(W) ==
    { [d \in 0..1 |-> [w \in 0..(W - 1) |->
          IF d = 0 /\ (w = 0 \/ w = W - 1) THEN 1 ELSE 0]],
      [d \in 0..0 |-> [w \in 0..(W - 1) |-> IF w = 1 THEN 2 ELSE 0]] }
TolChoices == { <<1, 1000>>, <<3, 1>> }
MaxIterChoices == {0, 1}

RAbs(a) == <<Abs(a[1]), a[2]>>

\* WS[DS == d]: the words of document d in stream order
DocTokens(lists, d) ==
    LET idx == { i \in DOMAIN lists.DS : lists.DS[i] = d }
    IN  Arr([j \in 0..(Cardinality(idx) - 1) |->
                lists.WS[CHOOSE i \in idx : Cardinality({q \in idx : q < i}) = j]])

\* one round of _transform_single's loop: PZS_new from PZS
TransformStep(PZS, doc) ==
    LET n == Size(doc)
        T == Size(components_)
        col == Arr([k \in 0..(T - 1) |-> RSum([i \in 0..(n - 1) |-> PZS[i][k]], n)])
        raw == Mat([i \in 0..(n - 1) |-> [k \in 0..(T - 1) |->
                   RMul(components_[k][doc[i]],
                        RAdd(RSub(col[k], PZS[i][k]), alpha))]])
    IN  Mat([i \in 0..(n - 1) |-> [k \in 0..(T - 1) |->
               RDiv(raw[i][k], RSum(raw[i], T))]])

\* for iteration in range(max_iter + 1), from the given iteration on
RECURSIVE TransformLoop(_, _, _, _, _)
TransformLoop(iteration, max_iter, tol, PZS, doc) ==
    IF iteration > max_iter THEN PZS
    ELSE LET n == Size(doc)
             T == Size(components_)
             PZS_new == TransformStep(PZS, doc)
             delta_naive == RSum([c \in 0..(n * T - 1) |->
                                RAbs(RSub(PZS_new[c \div T][c % T], PZS[c \div T][c % T]))],
                                n * T)
         IN  IF RLess(delta_naive, tol) THEN PZS_new
             ELSE TransformLoop(iteration + 1, max_iter, tol, PZS_new, doc)

transform_single(doc, max_iter, tol) ==
    LET n == Size(doc)
        T == Size(components_)
        PZS == TransformLoop(0, max_iter, tol,
                             Mat([i \in 0..(n - 1) |-> [k \in 0..(T - 1) |-> RZero]]), doc)
        col == Arr([k \in 0..(T - 1) |-> RSum([i \in 0..(n - 1) |-> PZS[i][k]], n)])
        total == RSum(col, T)
    IN  Arr([k \in 0..(T - 1) |-> RDiv(col[k], total)])

\* transform: the rows of the documents that occur in DS are computed, the
\* other rows of the np.empty result keep whatever they held
Transform ==
    /\ pc = "done"
    /\ \E M \in TransformChoices(NWords(X)), max_iter \in MaxIterChoices,
          tol \in TolChoices :
        LET lists == matrix_to_lists(M)
            present == { lists.DS[i] : i \in DOMAIN lists.DS }
        IN  \E junk \in (IF \A d \in DOMAIN M : d \in present
                         THEN {[k \in Topics |-> 0]} ELSE [Topics -> Garbage]) :
            transformed' =
                [X |-> M,
                 doc_topic |-> Mat([d \in 0..(NDocs(M) - 1) |->
                     IF d \in present
                     THEN transform_single(DocTokens(lists, d), max_iter, tol)
                     ELSE [k \in Topics |-> RInt(junk[k])]])]
    /\ pc' = "transformed"
    /\ UNCHANGED <<err, config, rands, X, it, attrs, counts, dists,
                   loglikelihoods_, outputs, events>>

Next ==
    \/ Construct \/ Initialize \/ Shuffle \/ Snapshot \/ SamplePass \/ Adjust
    \/ Finish \/ Transform

Spec == Init /\ [][Next]_vars

(***************************************************************************)
(* The sampling pass handed a buffer of zeros: the fit as above, except    *)
(* that the buffer may be zeroed before a pass.                            *)
(***************************************************************************)
ZeroRands == \A j \in DOMAIN rands : rands[j] = RZero

\* the iterations before whose pass the buffer may be zeroed
ZeroIterations == 0..1

ZeroBuffer ==
    /\ pc = "sample"
    /\ it \in ZeroIterations
    /\ ~ZeroRands
    /\ rands' = [j \in DOMAIN rands |-> RZero]
    /\ UNCHANGED <<pc, err, config, transformed, X, it, attrs, counts, dists,
                   loglikelihoods_, outputs, events>>

NextPass == Next \/ ZeroBuffer

SpecPass == Init /\ [][NextPass]_vars

(***************************************************************************)
(* Properties.                                                             *)
(***************************************************************************)
Initialized == "loglikelihoods_" \in attrs
Fitted == pc \in {"done", "transformed"}
Stochastic(row, n) ==
    /\ \A k \in 0..(n - 1) : ~RLess(row[k], RZero)
    /\ RSum(row, n) = ROne
LastEvent == IF events = <<>> THEN <<"none", 0>> ELSE events[Len(events)]

\* C1: after _initialize and after every sampling pass, for every topic z
\* the sum over words of nzw_[z] equals nz_[z], equals the sum over documents
\* of ndz_[.][z], and equals the number of tokens i with ZS[i] = z.
C1_CountsAgree ==
    Initialized =>
        \A z \in Topics :
            /\ ISum(nzw_[z], NWords(X)) = nz_[z]
            /\ ISum([d \in 0..(NDocs(X) - 1) |-> ndz_[d][z]], NDocs(X)) = nz_[z]
            /\ "ZS" \in attrs => Cardinality({i \in DOMAIN ZS : ZS[i] = z}) = nz_[z]

\* two passes have run and the assignment is no longer the initial one
C1_Witness ==
    /\ pc = "adjust" /\ it = 1 /\ n_topics = 2
    /\ nz_[0] > 0 /\ nz_[1] > 0
    /\ \E i \in DOMAIN ZS : ZS[i] # i % n_topics

\* C2: after initialization and after every sampling pass, for every
\* document d the sum over topics of ndz_[d] is the number of tokens of d in
\* the input matrix (so all of ndz_ sums to N), the tokens stay with their
\* documents and WS, DS and ZS keep the length N.
C2_DocumentTotals ==
    Initialized =>
        /\ \A d \in 0..(NDocs(X) - 1) : ISum(ndz_[d], n_topics) = DocLen(X, d)
        /\ ISum([d \in 0..(NDocs(X) - 1) |-> ISum(ndz_[d], n_topics)], NDocs(X)) = XSum(X)
        /\ "ZS" \in attrs =>
            /\ Size(WS) = XSum(X) /\ Size(DS) = XSum(X) /\ Size(ZS) = XSum(X)
            /\ \A d \in 0..(NDocs(X) - 1) :
                  Cardinality({i \in DOMAIN DS : DS[i] = d}) = DocLen(X, d)

\* a pass has moved tokens of a two-document corpus between its two topics
C2_Witness ==
    /\ pc = "adjust" /\ it = 1 /\ n_topics = 2 /\ X = XFull
    /\ ndz_[0][0] > 0 /\ ndz_[0][1] > 0 /\ ndz_[0][0] # ndz_[0][1]
    /\ ndz_[1][0] > 0 /\ ndz_[1][1] > 0

\* C3: after fit completes, every row of topic_word_ (the blend) has
\* non-negative entries that sum to 1.
C3_BlendRowStochastic ==
    Fitted => \A z \in Topics : Stochastic(topic_word_[z], NWords(X))

\* C4: transform(X) returns one row per row of X, of n_topics entries, each
\* row non-negative and summing to 1, rows of all-zero documents included.
C4_TransformRowStochastic ==
    pc = "transformed" =>
        /\ Size(transformed.doc_topic) = NDocs(transformed.X)
        /\ \A d \in 0..(NDocs(transformed.X) - 1) :
              /\ Size(transformed.doc_topic[d]) = n_topics
              /\ Stochastic(transformed.doc_topic[d], n_topics)

\* C5: a fit with n_topics <= 0 fails with an invalid-configuration error
\* before any count state exists or any token is assigned.
C5_NonPositiveTopicsRejected ==
    (n_topics <= 0 /\ pc \notin {"new", "constructed"}) =>
        /\ pc = "failed" /\ err = "ValueError"
        /\ attrs \cap CountAttrs = {}
        /\ nzw_ = Empty /\ ndz_ = Empty /\ nz_ = Empty
        /\ WS = Empty /\ DS = Empty /\ ZS = Empty

\* C6: one adjustment of topic adjust leaves each of the 5 lowest-relevance
\* top words with its probability times its relevance (0 when the relevance
\* is not positive) and leaves the sum of the row as it was before.
C6_AdjustmentConservesMass ==
    [][(pc = "adjust" /\ it % 2 = 0 /\ pc' = "shuffle") =>
        LET before == SmoothedRows(nzw_, eta)
            adjust == AdjustOutcome(before).adjust
            ids == TopicMostRow(before[adjust])
            min_rele == Relevance(wv, ids)
            min_index == MinIndex(min_rele)
        IN  /\ \A j \in DOMAIN min_index :
                  topic_word_new'[adjust][ids[min_index[j]]] =
                      IF RPos(min_rele[min_index[j]])
                      THEN RMul(before[adjust][ids[min_index[j]]], min_rele[min_index[j]])
                      ELSE RZero
            /\ RSum(topic_word_new'[adjust], NWords(X)) = RSum(before[adjust], NWords(X))
      ]_vars

IterationEvents(i) ==
    <<<<"shuffle", i>>>>
    \o (IF i % refresh = 0 THEN <<<<"loglikelihood", i>>>> ELSE <<>>)
    \o <<<<"sample", i>>>>
    \o (IF i % 2 = 0 THEN <<<<"adjust", i>>>> ELSE <<>>)
RECURSIVE LoopEvents(_)
LoopEvents(n) == IF n = 0 THEN <<>> ELSE LoopEvents(n - 1) \o IterationEvents(n - 1)
FitEvents ==
    <<<<"initialize", 0>>>> \o LoopEvents(n_iter)
    \o <<<<"blend", n_iter>>, <<"discard", n_iter>>>>
TraceEntries == SelectSeq([j \in 1..n_iter |-> j - 1], LAMBDA i : i % refresh = 0)
IsPrefix(s, t) == Len(s) <= Len(t) /\ s = SubSeq(t, 1, Len(s))

\* C8: in every iteration the buffer is reshuffled, then a log-likelihood
\* value is appended iff it % refresh = 0, then one sampling pass runs, then
\* the adjuster runs iff it % 2 = 0; the trace ends with one entry per
\* multiple of refresh in increasing order, and the blend and the discarding
\* of the token stream happen once, after the last iteration.
C8_EventOrder ==
    /\ (refresh > 0 \/ n_iter = 0) =>
          /\ IsPrefix(events, FitEvents)
          /\ IsPrefix(loglikelihoods_, TraceEntries)
    /\ Fitted => events = FitEvents /\ loglikelihoods_ = TraceEntries

\* a completed fit in which iteration 1 takes no snapshot and runs no adjustment
C8_Witness ==
    /\ pc = "done" /\ n_iter = 3 /\ refresh = 2
    /\ loglikelihoods_ = <<0, 2>>

\* C9: after an adjustment step components_ is still the smoothed
\* row-normalization of nzw_ (the step changed topic_word_new only).
C9_ComponentsFollowCounts ==
    LastEvent[1] = "adjust" => components_ = SmoothedRows(nzw_, eta)

\* some topic has, among the first TopN - 1 of its top words, one that no
\* token carries under that topic
AbsentTopWord ==
    \E i \in Topics : \E l \in 0..(TopN - 2) :
        LET w == TopicMostRow(SmoothedRows(nzw_, eta)[i])[l]
        IN  ~\E t \in DOMAIN WS : WS[t] = w /\ ZS[t] = i

\* C10: an adjustment in which some topic has such a top word fails with a
\* division by zero and aborts the fit: nothing runs afterwards, no blend
\* is produced and the token stream is kept; an adjustment in which there is
\* none completes.
C10_ZeroMarginalAborts ==
    [][/\ pc # "failed"
       /\ (pc = "adjust" /\ it % 2 = 0 /\ NWords(X) >= TopN) =>
             IF AbsentTopWord
             THEN /\ pc' = "failed" /\ err' = "ZeroDivisionError"
                  /\ "topic_word_" \notin attrs' /\ "doc_topic_" \notin attrs'
                  /\ topic_word_' = Empty /\ doc_topic_' = Empty
                  /\ {"WS", "DS", "ZS"} \subseteq attrs'
                  /\ WS' = WS /\ DS' = DS /\ ZS' = ZS
                  /\ events' = events
             ELSE pc' = "shuffle" /\ err' = "none" /\ LastEvent'[1] = "adjust"
      ]_vars

\* a fit whose first adjustment completed and whose second divided by zero
C10_Witness ==
    /\ pc = "failed" /\ err = "ZeroDivisionError" /\ it = 2
    /\ LastEvent = <<"sample", 2>>
    /\ \E j \in DOMAIN events : events[j] = <<"adjust", 0>>
====
